---- MODULE Spec2Model ----
(***************************************************************************)
(* Orlik-Solomon algebra of a matroid (sage.algebras.orlik_solomon):       *)
(* the broken-circuit table, subset_image (the reduction of a ground-set   *)
(* subset to the NBC basis), product_on_basis and algebra_generators,      *)
(* with the @cached_method caches they fill.                               *)
(*                                                                         *)
(* The base ring is the ring of integers.  An element of the algebra is a  *)
(* function from index sets to non-zero coefficients (a sparse dict whose  *)
(* zero entries are removed, as CombinatorialFreeModule keeps it).         *)
(***************************************************************************)
EXTENDS Integers, Sequences, FiniteSets, TLC

VARIABLES
    groundset,         \* self._M.groundset(): the ground set of the matroid
    circuits,          \* self._M.circuits(): the circuits of the matroid
    sorting,           \* self._sorting: element -> 0-based rank in the ordering
    broken_circuits,   \* self._broken_circuits: dict, kept in insertion order
    cache,             \* the @cached_method caches of the instance
    op,                \* the last call made on the instance and its outcome
    stack,             \* the frames of the calls in progress, innermost last
    calls,             \* the number of calls the user has made
    registry,          \* UniqueRepresentation: the instances made so far, by
                       \* the arguments they were made with
    semigroup          \* the generators of the group of the invariant algebra
                       \* made on the instance, {} when none was made

vars ==
    <<groundset, circuits, sorting, broken_circuits, cache, op, stack, calls,
      registry, semigroup>>

-----------------------------------------------------------------------------
(* Bounds and the inputs drawn from them                                   *)

\* size of the ground set
N == 3

Ground == 1..N

\* the total orders on the ground set, as tuples (the `ordering` argument)
Orderings == {o \in [1..N -> Ground] : \A i, j \in 1..N : o[i] = o[j] => i = j}

\* the circuit axioms: circuits are non-empty, none contains another, and
\* two circuits sharing e have a third inside their union minus e
IsCircuitSet(C) ==
    /\ {} \notin C
    /\ \A c1, c2 \in C : c1 \subseteq c2 => c1 = c2
    /\ \A c1, c2 \in C : c1 # c2 =>
           \A e \in c1 \cap c2 : \E c3 \in C : c3 \subseteq (c1 \cup c2) \ {e}

\* every matroid on the ground set, given by its circuits
Matroids == {C \in SUBSET (SUBSET Ground) : IsCircuitSet(C)}

\* the orders in which M.circuits() may enumerate the circuits
CircuitOrders(C) ==
    {s \in [1..Cardinality(C) -> C] : \A i, j \in 1..Cardinality(C) : s[i] = s[j] => i = j}

-----------------------------------------------------------------------------
(* Elements of the free module                                             *)

Zero == [s \in {} |-> 0]

Monomial(S) == [s \in {S} |-> 1]

\* self._from_dict({b: sign}, remove_zeros=False)
FromDict(b, sign) == [s \in {b} |-> sign]

Coef(x, s) == IF s \in DOMAIN x THEN x[s] ELSE 0

Add(x, y) ==
    LET D == {s \in DOMAIN x \cup DOMAIN y : Coef(x, s) + Coef(y, s) # 0}
    IN  [s \in D |-> Coef(x, s) + Coef(y, s)]

Scale(k, x) == IF k = 0 THEN Zero ELSE [s \in DOMAIN x |-> k * x[s]]

Neg(x) == Scale(-1, x)

-----------------------------------------------------------------------------
(* Python values and helpers                                               *)

\* a Python value handed to subset_image: its type and the elements it holds
Frozen(S) == [type |-> "frozenset", elems |-> S]

\* sorted(S, key=lambda x: key[x])
RECURSIVE SortedBy(_, _)
SortedBy(S, key) ==
    IF S = {} THEN <<>>
    ELSE LET m == CHOOSE x \in S : \A y \in S : key[x] <= key[y]
         IN  <<m>> \o SortedBy(S \ {m}, key)

\* sorted(S): the natural order of the elements
RECURSIVE Sorted(_)
Sorted(S) ==
    IF S = {} THEN <<>>
    ELSE LET m == CHOOSE x \in S : \A y \in S : x <= y
         IN  <<m>> \o Sorted(S \ {m})

Reversed(s) == [i \in 1..Len(s) |-> s[Len(s) + 1 - i]]

\* list.index: 0-based position of x in the sequence
Index(seq, x) == (CHOOSE k \in 1..Len(seq) : seq[k] = x) - 1

Range(seq) == {seq[k] : k \in 1..Len(seq)}

\* {x: i for i, x in enumerate(ordering)}
Sorting(ordering) == [x \in Range(ordering) |-> Index(ordering, x)]

Put(f, k, v) == [x \in DOMAIN f \cup {k} |-> IF x = k THEN v ELSE f[x]]

\* what a call hands back: a value or an exception, and the caches after it
Ret(v, c) == [exc |-> "none", v |-> v, c |-> c]

Raise(e, c) == [exc |-> e, v |-> Zero, c |-> c]

EmptyCache == [si |-> <<>>, pob |-> <<>>, gen |-> <<>>]

-----------------------------------------------------------------------------
(* __init__: the dictionary of broken circuits                             *)

\* position of key in the dict, 0 when absent
KeyPos(table, key) ==
    IF \E k \in 1..Len(table) : table[k].bc = key
    THEN CHOOSE k \in 1..Len(table) : table[k].bc = key
    ELSE 0

\* faulty variant: a key already in the dict keeps its value
SetItem_KeepFirst(table, key, val) ==
    IF KeyPos(table, key) = 0 THEN Append(table, [bc |-> key, pivot |-> val])
    ELSE table

\* self._broken_circuits[frozenset(L[1:])] = L[0]
SetItem(table, key, val) ==
    LET k == KeyPos(table, key)
    IN  IF k = 0 THEN Append(table, [bc |-> key, pivot |-> val])
        ELSE [table EXCEPT ![k].pivot = val]

\* faulty variant: L[:-1], the circuit without its largest element
BrokenPart_DropLast(L) == Range(SubSeq(L, 1, Len(L) - 1))

\* frozenset(L[1:]): the circuit without its smallest element
BrokenPart(L) == Range(Tail(L))

\* faulty variant: L[-1], the largest element of the circuit
Pivot_Last(L) == L[Len(L)]

\* L[0]: the smallest element of the circuit
Pivot(L) == Head(L)

\* for c in self._M.circuits(): ...
RECURSIVE BuildFrom(_, _, _, _)
BuildFrom(order, k, key, table) ==
    IF k > Len(order) THEN table
    ELSE LET L == SortedBy(order[k], key)
         IN  BuildFrom(order, k + 1, key,
                       SetItem(table, BrokenPart(L), Pivot(L)))

BuildTable(order, key) == BuildFrom(order, 1, key, <<>>)

\* M.no_broken_circuits_sets(ordering): the index set of the basis
IsNBC(S) == \A k \in 1..Len(broken_circuits) : ~(broken_circuits[k].bc \subseteq S)

NBC == {S \in SUBSET groundset : IsNBC(S)}

-----------------------------------------------------------------------------
(* subset_image                                                            *)
(*                                                                         *)
(* A call's result is bound once, as the only element of a singleton set,  *)
(* before the statements that follow it read its value and its caches.     *)

RECURSIVE subset_image(_, _)
RECURSIVE product_on_basis(_, _, _)

\* faulty variant: the type of S is not checked
IsFrozenset_Any(x) == TRUE

\* isinstance(S, frozenset)
IsFrozenset(x) == x.type = "frozenset"

\* faulty variant: S.issubset(bc) in place of bc.issubset(S)
FirstMatch_Superset(S) ==
    IF \E k \in 1..Len(broken_circuits) : S \subseteq broken_circuits[k].bc
    THEN CHOOSE k \in 1..Len(broken_circuits) :
             /\ S \subseteq broken_circuits[k].bc
             /\ \A m \in 1..(k - 1) : ~(S \subseteq broken_circuits[m].bc)
    ELSE 0

\* faulty variant: the search finds no broken circuit
FirstMatch_None(S) == 0

\* for bc in self._broken_circuits: if bc.issubset(S): the first key of the
\* dict, in its iteration order, that is a subset of S (0: none)
FirstMatch(S) ==
    IF \E k \in 1..Len(broken_circuits) : broken_circuits[k].bc \subseteq S
    THEN CHOOSE k \in 1..Len(broken_circuits) :
             /\ broken_circuits[k].bc \subseteq S
             /\ \A m \in 1..(k - 1) : ~(broken_circuits[m].bc \subseteq S)
    ELSE 0

\* faulty variant: the test for an actual circuit is dropped
HasPivot_Never(i, S) == FALSE

\* faulty variant: the test is inverted, if i not in S
HasPivot_Inverted(i, S) == i \notin S

\* if i in S: S contains an actual circuit
HasPivot(i, S) == i \in S

\* faulty variant: the sign flips from the first element on, not only after the pivot
NextCoeff_Always(coeff, switch) == coeff * (-1)

\* if switch: coeff *= -1
NextCoeff(coeff, switch) == IF switch THEN coeff * (-1) ELSE coeff

\* faulty variant: the switch is set by the first element, not by the pivot
NextSwitch_Early(switch, j, i) == TRUE

\* if j == i: switch = True
NextSwitch(switch, j, i) == switch \/ j = i

\* faulty variant: return self.one(), the monomial of the empty set
BaseCase_One(S) == Monomial({})

\* return self.monomial(S): S is an NBC set
BaseCase(S) == Monomial(S)

\* faulty variant: the test is dropped, every element of Si gives a term
InBC_Always(j, bc) == TRUE

\* if j in bc
InBC(j, bc) == j \in bc

\* for j in Ss: the sweep over sorted Si, from position k on
RECURSIVE Sweep(_, _, _, _, _, _, _, _, _)
Sweep(Ss, k, Si, bc, i, coeff, switch, r, c) ==
    IF k > Len(Ss) THEN Ret(r, c)
    ELSE CHOOSE out \in
           { IF call.exc # "none" THEN call
             ELSE Sweep(Ss, k + 1, Si, bc, i, NextCoeff(coeff, switch),
                        NextSwitch(switch, Ss[k], i),
                        IF InBC(Ss[k], bc) THEN Add(r, Scale(coeff, call.v)) ELSE r,
                        call.c)
             : call \in { IF InBC(Ss[k], bc)
                          THEN subset_image(Frozen(Si \ {Ss[k]}), c)
                          ELSE Ret(Zero, c) } } : TRUE

\* the body of subset_image, run on a cache miss
subset_image_body(x, c) ==
    IF ~IsFrozenset(x) THEN Raise("ValueError", c)
    ELSE LET S == x.elems
             k == FirstMatch(S)
         IN  IF k = 0 THEN Ret(BaseCase(S), c)
             ELSE LET bc == broken_circuits[k].bc
                      i == broken_circuits[k].pivot
                      Si == S \cup {i}
                  IN  IF HasPivot(i, S) THEN Ret(Zero, c)
                      \* sorted(Si, key=...) looks every element up in _sorting
                      ELSE IF ~(Si \subseteq DOMAIN sorting) THEN Raise("KeyError", c)
                      ELSE Sweep(SortedBy(Si, sorting), 1, Si, bc, i, 1, FALSE, Zero, c)

\* @cached_method: a hit returns the stored element; a miss runs the body
\* and stores what it returns (nothing is stored when it raises; a value
\* that is not hashable never hits)
subset_image(x, c) ==
    IF IsFrozenset(x) /\ x.elems \in DOMAIN c.si THEN Ret(c.si[x.elems], c)
    ELSE CHOOSE out \in
           { IF r.exc # "none" \/ ~IsFrozenset(x) THEN r
             ELSE Ret(r.v, [r.c EXCEPT !.si = Put(r.c.si, x.elems, r.v)])
             : r \in {subset_image_body(x, c)} } : TRUE

-----------------------------------------------------------------------------
(* algebra_generators                                                      *)

\* Family(sorted(groundset), lambda i: self.subset_image(frozenset([i]))):
\* a finite family, whose values are computed when it is built
RECURSIVE FamilyFrom(_, _, _, _)
FamilyFrom(keys, k, G, c) ==
    IF k > Len(keys) THEN Ret(G, c)
    ELSE CHOOSE out \in
           { IF call.exc # "none" THEN call
             ELSE FamilyFrom(keys, k + 1, Put(G, keys[k], call.v), call.c)
             : call \in {subset_image(Frozen({keys[k]}), c)} } : TRUE

algebra_generators(c) ==
    IF c.gen # <<>> THEN Ret(c.gen[1], c)
    ELSE CHOOSE out \in
           { Ret(r.v, [r.c EXCEPT !.gen = <<r.v>>])
             : r \in {FamilyFrom(Sorted(groundset), 1, <<>>, c)} } : TRUE

-----------------------------------------------------------------------------
(* the product                                                             *)

\* the product of two elements: the bilinear extension of product_on_basis,
\* summed over the pairs of terms still in `pairs`
RECURSIVE ProductOver(_, _, _, _, _)
ProductOver(pairs, x, y, acc, c) ==
    IF pairs = {} THEN Ret(acc, c)
    ELSE LET p == CHOOSE q \in pairs : TRUE
         IN  CHOOSE out \in
               { ProductOver(pairs \ {p}, x, y,
                             Add(acc, Scale(x[p[1]] * y[p[2]], call.v)), call.c)
                 : call \in {product_on_basis(p[1], p[2], c)} } : TRUE

product(x, y, c) == ProductOver((DOMAIN x) \X (DOMAIN y), x, y, Zero, c)

\* faulty variant: the disjointness test is dropped
Overlap_Never(a, b) == FALSE

\* if not a.isdisjoint(b)
Overlap(a, b) == a \cap b # {}

\* ns = b.union({i})
Inserted(b, i) == b \cup {i}

\* faulty variant: the natural order of the elements
SortInserted_Natural(ns) == Sorted(ns)

\* ns_sorted = sorted(ns, key=self._sorting.__getitem__)
SortInserted(ns) == SortedBy(ns, sorting)

\* faulty variant: the sign of the insertion is forgotten
InsertCoeff_NoSign(ns_sorted, i) == 1

\* faulty variant: the position of i is counted from 1
InsertCoeff_OneBased(ns_sorted, i) == (-1) ^ (Index(ns_sorted, i) + 1)

\* coeff = (-1)**ns_sorted.index(i)
InsertCoeff(ns_sorted, i) == (-1) ^ Index(ns_sorted, i)

\* faulty variant: the sign is -1 whenever a has two elements or more
ReverseSign_Minus(a) == IF Cardinality(a) < 2 THEN 1 ELSE -1

\* faulty variant: the sign of the reversal taken from the parity of len(a)
ReverseSign_Parity(a) == IF Cardinality(a) % 2 < 1 THEN 1 ELSE -1

\* if len(a) % 4 < 2: sign = R.one() else: sign = - R.one()
ReverseSign(a) == IF Cardinality(a) % 4 < 2 THEN 1 ELSE -1

\* faulty variant: return self.basis()[a], the empty set's monomial
LeftEmpty_Swapped(b) == Monomial({})

\* if not a: return self.basis()[b]
LeftEmpty(b) == Monomial(b)

\* faulty variant: return self.basis()[b], the empty set's monomial
RightEmpty_Swapped(a) == Monomial({})

\* if not b: return self.basis()[a]
RightEmpty(a) == Monomial(a)

\* for i in sorted(a, key=...): r = G[i] * r
RECURSIVE GeneratorLoop(_, _, _, _, _)
GeneratorLoop(As, k, G, r, c) ==
    IF k > Len(As) THEN Ret(r, c)
    ELSE CHOOSE out \in
           { GeneratorLoop(As, k + 1, G, call.v, call.c)
             : call \in {product(G[As[k]], r, c)} } : TRUE

product_on_basis_body(a, b, c) ==
    IF a = {} THEN Ret(LeftEmpty(b), c)
    ELSE IF b = {} THEN Ret(RightEmpty(a), c)
    ELSE IF Overlap(a, b) THEN Ret(Zero, c)
    ELSE IF Cardinality(a) = 1 THEN
        LET i == CHOOSE e \in a : TRUE
            ns == Inserted(b, i)
            ns_sorted == SortInserted(ns)
            coeff == InsertCoeff(ns_sorted, i)
        IN  CHOOSE out \in
              { Ret(Scale(coeff, call.v), call.c)
                : call \in {subset_image(Frozen(ns), c)} } : TRUE
    ELSE
        LET sign == ReverseSign(a)
            r == FromDict(b, sign)
        IN  CHOOSE out \in
              { GeneratorLoop(SortedBy(a, sorting), 1, G.v, r, G.c)
                : G \in {algebra_generators(c)} } : TRUE

\* faulty variant: the key forgets which argument is the left factor
CacheKey_Unordered(a, b) == {a, b}

\* @cached_method: the key of a call is the tuple of its arguments
CacheKey(a, b) == <<a, b>>

\* @cached_method
product_on_basis(a, b, c) ==
    IF CacheKey(a, b) \in DOMAIN c.pob THEN Ret(c.pob[CacheKey(a, b)], c)
    ELSE CHOOSE out \in
           { Ret(r.v, [r.c EXCEPT !.pob = Put(r.c.pob, CacheKey(a, b), r.v)])
             : r \in {product_on_basis_body(a, b, c)} } : TRUE

\* degree_on_basis
degree_on_basis(m) == Cardinality(m)

-----------------------------------------------------------------------------
(* The instance and the calls made on it                                   *)

\* a token that is not an element of the ground set
Alien == Cardinality(groundset) + 1

\* the values a caller may hand to subset_image: frozensets of ground-set
\* elements, frozensets holding a foreign element, and values of another type
Inputs ==
    {[type |-> t, elems |-> S] : t \in {"frozenset", "set"}, S \in SUBSET groundset}
    \cup {Frozen(S \cup {Alien}) : S \in SUBSET groundset}

\* OrlikSolomonAlgebra(R, M, ordering): nothing called yet
Init ==
    \E C \in Matroids, o \in Orderings :
        \E order \in CircuitOrders(C) :
            /\ groundset = Ground
            /\ circuits = C
            /\ sorting = Sorting(o)
            /\ broken_circuits = BuildTable(order, Sorting(o))
            /\ cache = EmptyCache
            /\ op = [name |-> "new", args |-> <<>>, exc |-> "none", value |-> Zero]
            /\ stack = <<>>
            /\ calls = 0
            /\ registry = <<>>
        /\ semigroup = {}

\* OrlikSolomonAlgebra(R, M): the ordering is omitted and defaults to
\* sorted(M.groundset())
InitDefault ==
    \E C \in Matroids :
        \E order \in CircuitOrders(C) :
            /\ groundset = Ground
            /\ circuits = C
            /\ sorting = Sorting(Sorted(Ground))
            /\ broken_circuits = BuildTable(order, Sorting(Sorted(Ground)))
            /\ cache = EmptyCache
            /\ op = [name |-> "new", args |-> <<>>, exc |-> "none", value |-> Zero]
            /\ stack = <<>>
            /\ calls = 0
            /\ registry = <<>>
        /\ semigroup = {}

\* the instances built in the examples of the documentation: the graphic
\* matroid of the triangle, with the default and the reversed ordering; the
\* uniform matroid U(3, 4); the graph with a double edge and a triangle
DocInstances ==
    { [groundset |-> 0..2, circuits |-> {{0, 1, 2}}, ordering |-> <<0, 1, 2>>],
      [groundset |-> 0..2, circuits |-> {{0, 1, 2}}, ordering |-> <<2, 1, 0>>],
      [groundset |-> 0..3, circuits |-> {{0, 1, 2, 3}}, ordering |-> <<0, 1, 2, 3>>],
      [groundset |-> 0..4, circuits |-> {{0, 1}, {2, 3, 4}},
       ordering |-> <<0, 1, 2, 3, 4>>] }

InitDoc ==
    \E I \in DocInstances :
        \E order \in CircuitOrders(I.circuits) :
            /\ groundset = I.groundset
            /\ circuits = I.circuits
            /\ sorting = Sorting(I.ordering)
            /\ broken_circuits = BuildTable(order, Sorting(I.ordering))
            /\ cache = EmptyCache
            /\ op = [name |-> "new", args |-> <<>>, exc |-> "none", value |-> Zero]
            /\ stack = <<>>
            /\ calls = 0
            /\ registry = <<>>
        /\ semigroup = {}

\* a ground set on which a basis element of four elements has a disjoint
\* partner and an element is left over
Wide == 1..(N + 3)

\* the matroids on it with at most one circuit, ordered from least to
\* greatest or from greatest to least
InitWide ==
    \E C \in {{}} \cup {{c} : c \in (SUBSET Wide) \ {{}}} :
        \E o \in {Sorted(Wide), Reversed(Sorted(Wide))} :
            \E order \in CircuitOrders(C) :
                /\ groundset = Wide
                /\ circuits = C
                /\ sorting = Sorting(o)
                /\ broken_circuits = BuildTable(order, Sorting(o))
                /\ cache = EmptyCache
                /\ op = [name |-> "new", args |-> <<>>, exc |-> "none", value |-> Zero]
                /\ stack = <<>>
                /\ calls = 0
                /\ registry = <<>>
                /\ semigroup = {}

CallSubsetImage(x) ==
    \E r \in {subset_image(x, cache)} :
        /\ cache' = r.c
        /\ op' = [name |-> "subset_image", args |-> <<x>>, exc |-> r.exc, value |-> r.v]
        /\ calls' = calls + 1
        /\ UNCHANGED <<registry, semigroup, groundset, circuits, sorting, broken_circuits, stack>>

CallProductOnBasis(a, b) ==
    \E r \in {product_on_basis(a, b, cache)} :
        /\ cache' = r.c
        /\ op' = [name |-> "product_on_basis", args |-> <<a, b>>, exc |-> r.exc, value |-> r.v]
        /\ calls' = calls + 1
        /\ UNCHANGED <<registry, semigroup, groundset, circuits, sorting, broken_circuits, stack>>

CallAlgebraGenerators ==
    \E r \in {algebra_generators(cache)} :
        /\ cache' = r.c
        /\ op' = [name |-> "algebra_generators", args |-> <<>>, exc |-> r.exc, value |-> r.v]
        /\ calls' = calls + 1
        /\ UNCHANGED <<registry, semigroup, groundset, circuits, sorting, broken_circuits, stack>>

\* one call on a freshly constructed instance
Fresh == op.name = "new"

Next ==
    \/ Fresh /\ \E x \in Inputs : CallSubsetImage(x)
    \/ Fresh /\ \E a \in NBC, b \in NBC : CallProductOnBasis(a, b)
    \/ Fresh /\ CallAlgebraGenerators

Spec == Init /\ [][Next]_vars

\* the same calls, on the instances of the documentation as well
SpecDoc == (Init \/ InitDoc) /\ [][Next]_vars

\* the same calls, on the instances with the default ordering
SpecDefault == InitDefault /\ [][Next]_vars

\* the same calls, on the larger ground set
SpecWide == InitWide /\ [][Next]_vars

\* the number of calls made one after the other on an instance
MaxCalls == 2

NextCalls ==
    \/ calls < MaxCalls /\ \E x \in Inputs : CallSubsetImage(x)
    \/ calls < MaxCalls /\ \E a \in NBC, b \in NBC : CallProductOnBasis(a, b)
    \/ calls < MaxCalls /\ CallAlgebraGenerators

\* calls made one after the other on the same instance, which keeps its
\* caches from one call to the next
SpecCalls == (Init \/ InitDoc) /\ [][NextCalls]_vars

-----------------------------------------------------------------------------
(* The calls, one step at a time                                           *)
(*                                                                         *)
(* A call in progress is a frame on the stack: its local variables and the *)
(* place it has reached.  A callee that returns without calling anything   *)
(* itself (a cache hit, or a body that returns at once) opens no frame.    *)

\* what entering a call gives: its answer, or the frame it opens
Answer(v, c) == [frames |-> <<>>, v |-> v, c |-> c]

Open(f, c) == [frames |-> <<f>>, v |-> Zero, c |-> c]

\* faulty variant: storing a value drops the values stored before
StoreSI_Forget(c, S, v) == [c EXCEPT !.si = Put(<<>>, S, v)]

\* @cached_method: the value a call returns is stored under its arguments
StoreSI(c, S, v) == [c EXCEPT !.si = Put(c.si, S, v)]

StorePOB(c, a, b, v) == [c EXCEPT !.pob = Put(c.pob, CacheKey(a, b), v)]

\* the elements of a finite set, one after the other
RECURSIVE Enumerate(_)
Enumerate(S) ==
    IF S = {} THEN <<>>
    ELSE LET x == CHOOSE y \in S : TRUE
         IN  <<x>> \o Enumerate(S \ {x})

\* faulty variant: the cache is never looked up
Cached_Never(S, c) == FALSE

\* @cached_method: the arguments have a value in the cache
Cached(S, c) == S \in DOMAIN c.si

\* subset_image(S) up to its first recursive call
EnterSubsetImage(S, c) ==
    IF Cached(S, c) THEN Answer(c.si[S], c)
    ELSE LET k == FirstMatch(S)
         IN  IF k = 0 THEN Answer(BaseCase(S), StoreSI(c, S, BaseCase(S)))
             ELSE LET bc == broken_circuits[k].bc
                      i == broken_circuits[k].pivot
                      Si == S \cup {i}
                  IN  IF HasPivot(i, S) THEN Answer(Zero, StoreSI(c, S, Zero))
                      ELSE Open([fn |-> "subset_image", S |-> S, bc |-> bc, i |-> i,
                                 Si |-> Si, Ss |-> SortedBy(Si, sorting), k |-> 1,
                                 coeff |-> 1, switch |-> FALSE, r |-> Zero], c)

\* algebra_generators() up to the first value of the family
EnterAlgebraGenerators(c) ==
    IF c.gen # <<>> THEN Answer(c.gen[1], c)
    ELSE Open([fn |-> "algebra_generators", keys |-> Sorted(groundset), k |-> 1,
               G |-> <<>>], c)

\* product_on_basis(a, b) up to its first call
EnterProductOnBasis(a, b, c) ==
    IF CacheKey(a, b) \in DOMAIN c.pob THEN Answer(c.pob[CacheKey(a, b)], c)
    ELSE IF a = {} THEN Answer(LeftEmpty(b), StorePOB(c, a, b, LeftEmpty(b)))
    ELSE IF b = {} THEN Answer(RightEmpty(a), StorePOB(c, a, b, RightEmpty(a)))
    ELSE IF Overlap(a, b) THEN Answer(Zero, StorePOB(c, a, b, Zero))
    ELSE IF Cardinality(a) = 1 THEN
        LET i == CHOOSE e \in a : TRUE
            ns == Inserted(b, i)
        IN  Open([fn |-> "product_on_basis", a |-> a, b |-> b, pc |-> "subset_image",
                  ns |-> ns, coeff |-> InsertCoeff(SortInserted(ns), i),
                  As |-> <<>>, k |-> 1, G |-> <<>>, r |-> Zero], c)
    ELSE Open([fn |-> "product_on_basis", a |-> a, b |-> b, pc |-> "algebra_generators",
               ns |-> {}, coeff |-> 1,
               As |-> SortedBy(a, sorting), k |-> 1, G |-> <<>>,
               r |-> FromDict(b, ReverseSign(a))], c)

\* x * y up to its first product_on_basis
EnterProduct(x, y, c) ==
    Open([fn |-> "product", x |-> x, y |-> y,
          pairs |-> Enumerate((DOMAIN x) \X (DOMAIN y)), k |-> 1, r |-> Zero], c)

\* what a frame does next: a call, a step of its own, or its return
Todo(f) ==
    CASE f.fn = "subset_image" ->
           IF f.k > Len(f.Ss) THEN [do |-> "return", v |-> f.r]
           ELSE IF InBC(f.Ss[f.k], f.bc)
                THEN [do |-> "subset_image", S |-> f.Si \ {f.Ss[f.k]}]
                ELSE [do |-> "step"]
      [] f.fn = "algebra_generators" ->
           IF f.k > Len(f.keys) THEN [do |-> "return", v |-> f.G]
           ELSE [do |-> "subset_image", S |-> {f.keys[f.k]}]
      [] f.fn = "product_on_basis" ->
           IF f.pc = "subset_image" THEN [do |-> "subset_image", S |-> f.ns]
           ELSE IF f.pc = "algebra_generators" THEN [do |-> "algebra_generators"]
           ELSE IF f.k > Len(f.As) THEN [do |-> "return", v |-> f.r]
           ELSE [do |-> "product", x |-> f.G[f.As[f.k]], y |-> f.r]
      [] f.fn = "product" ->
           IF f.k > Len(f.pairs) THEN [do |-> "return", v |-> f.r]
           ELSE [do |-> "product_on_basis",
                 a |-> f.pairs[f.k][1], b |-> f.pairs[f.k][2]]

Enter(t, c) ==
    CASE t.do = "subset_image" -> EnterSubsetImage(t.S, c)
      [] t.do = "algebra_generators" -> EnterAlgebraGenerators(c)
      [] t.do = "product_on_basis" -> EnterProductOnBasis(t.a, t.b, c)
      [] t.do = "product" -> EnterProduct(t.x, t.y, c)

\* the frame once the call it made has answered v
Resume(f, v) ==
    CASE f.fn = "subset_image" ->
           [f EXCEPT !.r = Add(f.r, Scale(f.coeff, v)),
                     !.coeff = NextCoeff(f.coeff, f.switch),
                     !.switch = NextSwitch(f.switch, f.Ss[f.k], f.i),
                     !.k = f.k + 1]
      [] f.fn = "algebra_generators" ->
           [f EXCEPT !.G = Put(f.G, f.keys[f.k], v), !.k = f.k + 1]
      [] f.fn = "product_on_basis" ->
           IF f.pc = "subset_image" THEN [f EXCEPT !.r = Scale(f.coeff, v), !.pc = "loop"]
           ELSE IF f.pc = "algebra_generators" THEN [f EXCEPT !.G = v, !.pc = "loop"]
           ELSE [f EXCEPT !.r = v, !.k = f.k + 1]
      [] f.fn = "product" ->
           [f EXCEPT !.r = Add(f.r, Scale(f.x[f.pairs[f.k][1]] * f.y[f.pairs[f.k][2]], v)),
                     !.k = f.k + 1]

\* the sweep passes an element of Si that is not in bc
Passed(f) ==
    [f EXCEPT !.coeff = NextCoeff(f.coeff, f.switch),
              !.switch = NextSwitch(f.switch, f.Ss[f.k], f.i),
              !.k = f.k + 1]

\* the caches once the frame has returned v
Stored(f, v, c) ==
    CASE f.fn = "subset_image" -> StoreSI(c, f.S, v)
      [] f.fn = "algebra_generators" -> [c EXCEPT !.gen = <<v>>]
      [] f.fn = "product_on_basis" -> StorePOB(c, f.a, f.b, v)
      [] f.fn = "product" -> c

Top == stack[Len(stack)]

Running == stack # <<>>

\* a call is made on the instance while no call is in progress
Start(t, name, args) ==
    /\ ~Running
    /\ \E e \in {Enter(t, cache)} :
          /\ stack' = e.frames
          /\ cache' = e.c
          /\ op' = [name |-> name, args |-> args,
                    exc |-> IF e.frames = <<>> THEN "none" ELSE "running",
                    value |-> e.v]
    /\ calls' = calls + 1
    /\ UNCHANGED <<registry, semigroup, groundset, circuits, sorting, broken_circuits>>

\* a call is made on the new instance
Begin(t, name, args) == Fresh /\ Start(t, name, args)

BeginSubsetImage(S) ==
    Begin([do |-> "subset_image", S |-> S], "subset_image", <<Frozen(S)>>)

BeginProductOnBasis(a, b) ==
    Begin([do |-> "product_on_basis", a |-> a, b |-> b], "product_on_basis", <<a, b>>)

\* the innermost frame makes a call that opens a frame
Descend ==
    /\ Running /\ Todo(Top).do \notin {"return", "step"}
    /\ \E e \in {Enter(Todo(Top), cache)} :
          /\ e.frames # <<>>
          /\ stack' = stack \o e.frames
          /\ cache' = e.c
    /\ UNCHANGED <<registry, semigroup, groundset, circuits, sorting, broken_circuits, op, calls>>

\* the innermost frame makes a call that answers at once
Hit ==
    /\ Running /\ Todo(Top).do \notin {"return", "step"}
    /\ \E e \in {Enter(Todo(Top), cache)} :
          /\ e.frames = <<>>
          /\ stack' = [stack EXCEPT ![Len(stack)] = Resume(Top, e.v)]
          /\ cache' = e.c
    /\ UNCHANGED <<registry, semigroup, groundset, circuits, sorting, broken_circuits, op, calls>>

\* the innermost frame takes a step that calls nothing
Pass ==
    /\ Running /\ Todo(Top).do = "step"
    /\ stack' = [stack EXCEPT ![Len(stack)] = Passed(Top)]
    /\ UNCHANGED <<registry, semigroup, groundset, circuits, sorting, broken_circuits, cache, op, calls>>

\* the innermost frame returns, to its caller or to the user
Return ==
    /\ Running /\ Todo(Top).do = "return"
    /\ \E v \in {Todo(Top).v}, rest \in {SubSeq(stack, 1, Len(stack) - 1)} :
          /\ cache' = Stored(Top, v, cache)
          /\ IF rest = <<>>
             THEN /\ stack' = <<>>
                  /\ op' = [op EXCEPT !.exc = "none", !.value = v]
             ELSE /\ stack' = [rest EXCEPT ![Len(rest)] = Resume(rest[Len(rest)], v)]
                  /\ UNCHANGED op
    /\ UNCHANGED <<registry, semigroup, groundset, circuits, sorting, broken_circuits, calls>>

NextRun ==
    \/ \E S \in SUBSET groundset : BeginSubsetImage(S)
    \/ \E a \in NBC, b \in NBC : BeginProductOnBasis(a, b)
    \/ Descend
    \/ Hit
    \/ Pass
    \/ Return

\* one call, run step by step, on a new instance with the default ordering
\* or on an instance of the documentation; a call in progress is never
\* suspended
SpecRun == (InitDefault \/ InitDoc) /\ [][NextRun]_vars /\ WF_vars(NextRun)

NextRuns ==
    \/ /\ calls < MaxCalls
       /\ \E S \in SUBSET groundset :
             Start([do |-> "subset_image", S |-> S], "subset_image", <<Frozen(S)>>)
    \/ /\ calls < MaxCalls
       /\ \E a \in NBC, b \in NBC :
             Start([do |-> "product_on_basis", a |-> a, b |-> b],
                   "product_on_basis", <<a, b>>)
    \/ Descend
    \/ Hit
    \/ Pass
    \/ Return

\* calls made one after the other and run step by step, on an instance that
\* keeps its caches from one call to the next
SpecRuns == (InitDefault \/ InitDoc) /\ [][NextRuns]_vars

-----------------------------------------------------------------------------
(* The constructor                                                         *)

\* the values a caller passes as `ordering`: None, or the ground set from
\* least to greatest or from greatest to least, as a tuple or as a list
OrderingValues ==
    {[type |-> "None", items |-> <<>>]}
    \cup {[type |-> t, items |-> o] :
            t \in {"tuple", "list"},
            o \in {Sorted(groundset), Reversed(Sorted(groundset))}}

\* faulty variant: the ordering is passed on as it was given
AsTuple_AsGiven(ordering) == ordering

\* tuple(ordering)
AsTuple(ordering) == [type |-> "tuple", items |-> ordering.items]

\* __classcall_private__: the ordering the instance is cached under
classcall_private(ordering) ==
    AsTuple(IF ordering.type = "None"
            THEN [type |-> "list", items |-> Sorted(groundset)]
            ELSE ordering)

\* __init__, run when no instance is cached under the key
NewInstance(key, given) ==
    [id |-> Cardinality(DOMAIN registry) + 1,
     given |-> given,
     sorting |-> Sorting(key.items),
     broken_circuits |-> BuildTable(Enumerate(circuits), Sorting(key.items))]

\* OrlikSolomonAlgebra(R, M, ordering): the instance cached under the
\* normalised arguments, made on the first call with them
Construct(ordering) ==
    /\ \E key \in {classcall_private(ordering)} :
         \E inst \in { IF key \in DOMAIN registry THEN registry[key]
                       ELSE NewInstance(key, ordering) } :
            /\ registry' = Put(registry, key, inst)
            /\ sorting' = inst.sorting
            /\ broken_circuits' = inst.broken_circuits
            /\ op' = [name |-> "OrlikSolomonAlgebra", args |-> <<ordering>>,
                      exc |-> "none", value |-> inst.id]
    /\ UNCHANGED <<groundset, circuits, cache, stack, calls, semigroup>>

\* a matroid, and no algebra made for it yet
InitMatroid ==
    \E C \in Matroids :
        /\ groundset = Ground
        /\ circuits = C
        /\ sorting = <<>>
        /\ broken_circuits = <<>>
        /\ cache = EmptyCache
        /\ op = [name |-> "none", args |-> <<>>, exc |-> "none", value |-> Zero]
        /\ stack = <<>>
        /\ calls = 0
        /\ registry = <<>>
        /\ semigroup = {}

NextNew == \E ordering \in OrderingValues : Construct(ordering)

\* algebras made one after the other for the same ring and matroid
SpecNew == InitMatroid /\ [][NextNew]_vars

-----------------------------------------------------------------------------
(* The invariant algebra                                                   *)

\* one_basis(): the index of the basis element 1
one_basis == {}

\* one(): the monomial on one_basis()
one == Monomial(one_basis)

\* the permutations of the ground set a group acts by
Perms ==
    {g \in [groundset -> groundset] : \A x, y \in groundset : g[x] = g[y] => x = y}

\* the generators of G: one or two permutations
Generators == {{g, h} : g \in Perms, h \in Perms}

Compose(g, h) == [x \in groundset |-> g[h[x]]]

\* the elements of G: the products of the generators
RECURSIVE Generated(_)
Generated(S) ==
    LET T == S \cup {Compose(g, h) : g \in S, h \in S}
    IN  IF T = S THEN S ELSE Generated(T)

\* faulty variant: the group element is not applied
groundset_action_Trivial(g, x) == x

\* the default action_on_groundset: g(x)
groundset_action(g, x) == g[x]

\* faulty variant: the elements are taken from greatest to least
basis_elt_Reversed(f) == Reversed(SortedBy(f, sorting))

\* basis_elt = sorted(f, key=OS._sorting.__getitem__)
basis_elt(f) == SortedBy(f, sorting)

\* faulty variant: the element is kept next to its image
fset_WithSource(g, e) == Frozen({e, groundset_action(g, e)})

\* fset = frozenset([self._groundset_action(g, e)])
fset(g, e) == Frozen({groundset_action(g, e)})

\* for e in basis_elt: gx = gx * OS.subset_image(fset)
RECURSIVE ImageLoop(_, _, _, _, _)
ImageLoop(g, es, k, gx, c) ==
    IF k > Len(es) THEN Ret(gx, c)
    ELSE CHOOSE out \in
           { CHOOSE out2 \in
               { ImageLoop(g, es, k + 1, p.v, p.c)
                 : p \in {product(gx, si.v, si.c)} } : TRUE
             : si \in {subset_image(fset(g, es[k]), c)} }
           : TRUE

\* _basis_action(g, f)
basis_action(g, f, c) ==
    IF f = {} THEN Ret(one, c) ELSE ImageLoop(g, basis_elt(f), 1, one, c)

\* action(g, m): the sum of c * _basis_action(g, x) over the terms of m
RECURSIVE ActionOver(_, _, _, _, _)
ActionOver(g, m, keys, acc, c) ==
    IF keys = {} THEN Ret(acc, c)
    ELSE LET x == CHOOSE k \in keys : TRUE
         IN  CHOOSE out \in
               { ActionOver(g, m, keys \ {x}, Add(acc, Scale(m[x], r.v)), r.c)
                 : r \in {basis_action(g, x, c)} } : TRUE

action(g, m, c) == ActionOver(g, m, DOMAIN m, Zero, c)

\* OS.homogeneous_component(d): the basis elements of degree d
homogeneous_component(d) == {S \in NBC : degree_on_basis(S) = d}

\* max_deg = max([b.degree() for b in OS.basis()])
max_deg == CHOOSE d \in 0..Cardinality(groundset) :
               /\ homogeneous_component(d) # {}
               /\ \A e \in 0..Cardinality(groundset) :
                      homogeneous_component(e) # {} => e <= d

\* the greatest absolute value of a coefficient of an element
MaxCoeff == 1

\* the elements of OS_d
Elements(d) ==
    UNION { [D -> (-MaxCoeff..MaxCoeff) \ {0}]
            : D \in SUBSET homogeneous_component(d) }

\* OS_d.invariant_module(G, action=action): the elements of OS_d that
\* every generator of G fixes
invariant_module(d, G, c) ==
    {v \in Elements(d) : \A g \in G : action(g, v, c).v = v}

\* the action of every generator on every basis element, which the
\* invariant modules are computed from
RECURSIVE ActAll(_, _)
ActAll(pairs, c) ==
    IF pairs = {} THEN c
    ELSE LET p == CHOOSE q \in pairs : TRUE
         IN  CHOOSE out \in
               { ActAll(pairs \ {p}, r.c)
                 : r \in {basis_action(p[1], p[2], c)} } : TRUE

\* M.orlik_solomon_algebra(R, invariant=G): OrlikSolomonInvariantAlgebra
\* over the instance; max() of an empty list raises ValueError
MakeInvariant(G) ==
    /\ op.name = "new"
    /\ IF NBC = {}
       THEN /\ op' = [name |-> "invariant_algebra", args |-> <<G>>,
                      exc |-> "ValueError", value |-> Zero]
            /\ UNCHANGED <<cache, semigroup>>
       ELSE /\ op' = [name |-> "invariant_algebra", args |-> <<G>>,
                      exc |-> "none", value |-> Zero]
            /\ cache' = ActAll(G \X NBC, cache)
            /\ semigroup' = G
    /\ UNCHANGED <<groundset, circuits, sorting, broken_circuits, stack, calls,
                   registry>>

\* the lifts of the elements of the invariant algebra
Lifts == UNION {invariant_module(d, semigroup, cache) : d \in 0..max_deg}

\* action(g, x) for g in G and x the lift of an element
Act(g, x) ==
    /\ \E r \in {action(g, x, cache)} :
          /\ cache' = r.c
          /\ op' = [name |-> "action", args |-> <<g, x>>,
                    exc |-> r.exc, value |-> r.v]
    /\ UNCHANGED <<groundset, circuits, sorting, broken_circuits, stack, calls,
                   registry, semigroup>>

NextInv ==
    \/ \E G \in Generators : MakeInvariant(G)
    \/ /\ semigroup # {}
       /\ op.name = "invariant_algebra"
       /\ \E g \in Generated(semigroup), x \in Lifts : Act(g, x)

\* an invariant algebra made on a new instance, or on the triangle of the
\* documentation, and one action on it
SpecInv == (Init \/ (InitDoc /\ circuits = {{0, 1, 2}})) /\ [][NextInv]_vars

-----------------------------------------------------------------------------
(* Values the properties below are stated with                             *)

\* the matroid has a loop: a circuit with a single element
HasLoop == \E c \in circuits : Cardinality(c) = 1

\* the last call was subset_image(frozenset(F)) with F inside the ground set
ReducedSet(F) ==
    /\ op.name = "subset_image"
    /\ op.args[1] = Frozen(F)
    /\ F \subseteq Ground

\* the last call was product_on_basis(a, b)
Multiplied(a, b) == op.name = "product_on_basis" /\ op.args = <<a, b>>

\* the last call was subset_image of a frozenset inside the ground set
Reduced ==
    /\ op.name = "subset_image"
    /\ op.args[1].type = "frozenset"
    /\ op.args[1].elems \subseteq Ground

\* the arguments of the last call
Arg1 == op.args[1]

Arg2 == op.args[2]

\* x * y on a fresh instance, and e_a * e_b for basis indices a and b
Times(x, y) == product(x, y, EmptyCache).v

TimesOnBasis(a, b) == product_on_basis(a, b, EmptyCache).v

\* e_{s_1} * ... * e_{s_k}, multiplied left to right starting from one()
RECURSIVE GeneratorProduct(_, _)
GeneratorProduct(seq, k) ==
    IF k = 0 THEN one
    ELSE Times(GeneratorProduct(seq, k - 1),
               algebra_generators(EmptyCache).v[seq[k]])

\* the least element, in the ordering, of the parallel class of x
ParallelMin(x) ==
    LET P == {x} \cup {y \in Ground : {x, y} \in circuits}
    IN  CHOOSE m \in P : \A y \in P : sorting[m] <= sorting[y]

-----------------------------------------------------------------------------
(* C1: generator expansion                                                 *)

\* C1 (as stated): after subset_image(F) for any subset F of the ground
\* set, the result equals the product of the generators of F taken left to
\* right in ascending order of the ordering (one() for F empty).
C1_Original ==
    Reduced =>
        op.value = GeneratorProduct(SortedBy(Arg1.elems, sorting),
                                    Cardinality(Arg1.elems))

\* C1 (amended): the same, for every F when the matroid has no loop and for
\* every non-empty F when it has one (with a loop subset_image of the empty
\* set is zero, while the empty product is one()).
C1_GeneratorExpansion ==
    (Reduced /\ (Arg1.elems # {} \/ ~HasLoop)) =>
        op.value = GeneratorProduct(SortedBy(Arg1.elems, sorting),
                                    Cardinality(Arg1.elems))

\* a set of two or more elements that contains a broken circuit was reduced
\* to a non-zero element
C1_Witness ==
    \E F \in SUBSET Ground :
        /\ ReducedSet(F)
        /\ Cardinality(F) >= 2
        /\ ~IsNBC(F)
        /\ op.value # Zero

-----------------------------------------------------------------------------
(* C2: circuits reduce to zero                                             *)

\* C2: after subset_image(C) for a circuit C the result is zero, whatever
\* the order of the broken-circuit table.
C2_CircuitIsZero ==
    (Reduced /\ Arg1.elems \in circuits) => (op.exc = "none" /\ op.value = Zero)

\* a circuit was reduced, and the first broken circuit the search met inside
\* it is not the circuit's own: its pivot lies outside the circuit
C2_Witness ==
    \E C \in circuits :
        /\ ReducedSet(C)
        /\ FirstMatch(C) # 0
        /\ broken_circuits[FirstMatch(C)].pivot \notin C

-----------------------------------------------------------------------------
(* C3: associativity                                                       *)

\* C3: for all basis elements a, b, c: (e_a * e_b) * e_c = e_a * (e_b * e_c),
\* the product of elements being the bilinear extension of product_on_basis.
\* The same for every triple of generators, once algebra_generators() has
\* returned them.
C3_Associative ==
    /\ op.name = "product_on_basis" =>
          \A c \in NBC :
              Times(op.value, Monomial(c)) = Times(Monomial(Arg1), TimesOnBasis(Arg2, c))
    /\ op.name = "algebra_generators" =>
          \A x \in Ground, y \in Ground, z \in Ground :
              Times(Times(op.value[x], op.value[y]), op.value[z])
                  = Times(op.value[x], Times(op.value[y], op.value[z]))

\* a product of two non-empty basis elements that has a non-zero product
\* with a third one
C3_Witness ==
    \E a \in NBC, b \in NBC, c \in NBC :
        /\ Multiplied(a, b)
        /\ a # {} /\ b # {} /\ c # {}
        /\ Times(op.value, Monomial(c)) # Zero

-----------------------------------------------------------------------------
(* C4: antisymmetry                                                        *)

\* C4: for distinct x, y with {x} and {y} NBC sets,
\* product_on_basis({x}, {y}) = - product_on_basis({y}, {x}).
C4_Antisymmetric ==
    \A x \in Ground, y \in Ground :
        (x # y /\ Multiplied({x}, {y})) => op.value = Neg(TimesOnBasis({y}, {x}))

\* two distinct generators were multiplied and the product is not zero
C4_Witness ==
    \E x \in Ground, y \in Ground :
        x # y /\ Multiplied({x}, {y}) /\ op.value # Zero

-----------------------------------------------------------------------------
(* C5: overlapping basis sets                                              *)

\* C5: for non-empty NBC sets a and b that share an element,
\* product_on_basis(a, b) returns zero and raises nothing.
C5_OverlapIsZero ==
    (op.name = "product_on_basis" /\ Arg1 # {} /\ Arg2 # {} /\ Arg1 \cap Arg2 # {}) =>
        (op.exc = "none" /\ op.value = Zero)

\* two different overlapping NBC sets were multiplied
C5_Witness ==
    \E a \in NBC, b \in NBC :
        Multiplied(a, b) /\ a \cap b # {} /\ a # b /\ a \ b # {}

-----------------------------------------------------------------------------
(* C6: grading                                                             *)

\* C6: every term of product_on_basis(a, b) is indexed by a set of
\* cardinality |a| + |b|.
C6_GradingAdditive ==
    op.name = "product_on_basis" =>
        \A s \in DOMAIN op.value :
            degree_on_basis(s) = degree_on_basis(Arg1) + degree_on_basis(Arg2)

\* a product of two basis elements of positive degree that has more than
\* one term
C6_Witness ==
    \E a \in NBC, b \in NBC :
        /\ Multiplied(a, b)
        /\ a # {} /\ b # {}
        /\ Cardinality(DOMAIN op.value) >= 2

-----------------------------------------------------------------------------
(* C7: the identity                                                        *)

\* C7: for every NBC set b, product_on_basis(empty, b) and
\* product_on_basis(b, empty) are the monomial on b.
C7_EmptyIsIdentity ==
    op.name = "product_on_basis" =>
        /\ Arg1 = {} => op.value = Monomial(Arg2)
        /\ Arg2 = {} => op.value = Monomial(Arg1)

\* the empty set was the left factor of a non-empty NBC set
C7_Witness == \E b \in NBC : b # {} /\ Multiplied({}, b)

-----------------------------------------------------------------------------
(* C8: the empty set                                                       *)

\* C8 (as stated): subset_image(frozenset()) is one() for every matroid and
\* ordering.
C8_Original == ReducedSet({}) => op.value = one

\* C8 (amended): subset_image(frozenset()) is one() for every matroid
\* without a loop and every ordering.
C8_EmptyIsOne == (ReducedSet({}) /\ ~HasLoop) => op.value = one

\* the empty set was reduced in a matroid that has circuits and no loop
C8_Witness == ReducedSet({}) /\ ~HasLoop /\ circuits # {}

-----------------------------------------------------------------------------
(* C9: the generators                                                      *)

\* C9 (as stated): algebra_generators() maps every x to the monomial on {x}.
C9_Original ==
    op.name = "algebra_generators" =>
        \A x \in Ground : op.value[x] = Monomial({x})

\* C9 (amended): algebra_generators() maps every x to subset_image({x}): the
\* monomial on {x} when {x} is an NBC set; the monomial on {m}, m the least
\* element parallel to x, when the matroid has no loop; zero when it has.
C9_Generators ==
    op.name = "algebra_generators" =>
        /\ DOMAIN op.value = Ground
        /\ \A x \in Ground :
              /\ IsNBC({x}) => op.value[x] = Monomial({x})
              /\ ~HasLoop => op.value[x] = Monomial({ParallelMin(x)})
              /\ HasLoop => op.value[x] = Zero

\* the generators were computed and one of them is the monomial of another
\* element
C9_Witness ==
    /\ op.name = "algebra_generators"
    /\ \E x \in Ground, y \in Ground : x # y /\ op.value[x] = Monomial({y})

-----------------------------------------------------------------------------
(* C10: invalid input                                                      *)

\* the value handed to the last subset_image call
Given == op.args[1]

-----------------------------------------------------------------------------
(* C13: the triangle                                                       *)

\* the matroid of the triangle on {0, 1, 2} (the single circuit {0, 1, 2})
\* with the ordering 0 < 1 < 2
IsTriangle ==
    /\ groundset = 0..2
    /\ circuits = {{0, 1, 2}}
    /\ sorting = Sorting(<<0, 1, 2>>)

\* C13: for ground set {0, 1, 2}, ordering 0 < 1 < 2 and the single circuit
\* {0, 1, 2}, the table is {{1, 2} -> 0} and subset_image({1, 2}) has
\* exactly two terms: +1 on {0, 2} and -1 on {0, 1}.
C13_Triangle ==
    IsTriangle =>
        /\ broken_circuits = <<[bc |-> {1, 2}, pivot |-> 0]>>
        /\ (op.name = "subset_image" /\ Arg1 = Frozen({1, 2})) =>
               /\ op.exc = "none"
               /\ DOMAIN op.value = {{0, 2}, {0, 1}}
               /\ op.value[{0, 2}] = 1
               /\ op.value[{0, 1}] = -1

\* subset_image({1, 2}) was called on the triangle and returned
C13_Witness ==
    /\ IsTriangle
    /\ op.name = "subset_image" /\ Arg1 = Frozen({1, 2})
    /\ op.exc = "none"

-----------------------------------------------------------------------------
(* C14: the dimension                                                      *)

\* M.broken_circuits(ordering): every circuit without its least element
M_broken_circuits ==
    {c \ {CHOOSE m \in c : \A y \in c : sorting[m] <= sorting[y]} : c \in circuits}

\* M.no_broken_circuits_sets(ordering), the keys of the basis: the subsets
\* of the ground set that contain no broken circuit
M_no_broken_circuits_sets ==
    {S \in SUBSET groundset : \A b \in M_broken_circuits : ~(b \subseteq S)}

\* dimension(): the number of basis keys
dimension == Cardinality(M_no_broken_circuits_sets)

\* the uniform matroid U(3, 4) on {0, 1, 2, 3}
IsU34 == groundset = 0..3 /\ circuits = {{0, 1, 2, 3}}

\* C14: once the algebra is constructed, the keys of its basis are exactly
\* the subsets of the ground set that contain no key of the broken-circuit
\* table; the dimension is 6 for the triangle and 14 for U(3, 4).
C14_Dimension ==
    Fresh =>
        /\ M_no_broken_circuits_sets = {S \in SUBSET groundset : IsNBC(S)}
        /\ IsTriangle => dimension = 6
        /\ IsU34 => dimension = 14

\* the algebra of U(3, 4) was constructed
C14_Witness == Fresh /\ IsU34 /\ Len(broken_circuits) = 1

-----------------------------------------------------------------------------
(* C18: the base case                                                      *)

\* C18: if no key of the table is a subset of S, subset_image(S) returns
\* the monomial on S and caches it, and makes no recursive call: nothing
\* else enters the caches.
C18_BaseCase ==
    (op.name = "subset_image" /\ IsFrozenset(Arg1) /\ FirstMatch(Arg1.elems) = 0) =>
        /\ op.exc = "none"
        /\ op.value = Monomial(Arg1.elems)
        /\ cache = [EmptyCache EXCEPT !.si = Put(<<>>, Arg1.elems, Monomial(Arg1.elems))]

\* a non-empty NBC set was reduced in a matroid that has circuits
C18_Witness ==
    /\ Reduced
    /\ Arg1.elems # {} /\ IsNBC(Arg1.elems)
    /\ circuits # {}
    /\ op.value = Monomial(Arg1.elems)

-----------------------------------------------------------------------------
(* C19: dependent sets                                                     *)

\* S contains a circuit of the matroid
Dependent(S) == \E c \in circuits : c \subseteq S

\* C19: for every subset S of the ground set that contains a circuit,
\* subset_image(S) is zero.
C19_DependentIsZero ==
    (Reduced /\ Dependent(Arg1.elems)) => (op.exc = "none" /\ op.value = Zero)

\* a dependent set that is not a circuit was reduced, and the first broken
\* circuit found inside it has its pivot outside the set
C19_Witness ==
    /\ Reduced
    /\ Dependent(Arg1.elems) /\ Arg1.elems \notin circuits
    /\ FirstMatch(Arg1.elems) # 0
    /\ broken_circuits[FirstMatch(Arg1.elems)].pivot \notin Arg1.elems

-----------------------------------------------------------------------------
(* C20: the expansion step                                                 *)

\* subset_image(S) on a new instance
Image(S) == subset_image(Frozen(S), EmptyCache).v

\* the sum over j in J of (-1)^(pos(j) - pos(i) - 1) * Image(Si minus {j}),
\* pos the 0-based position in Ss
RECURSIVE ExpansionSum(_, _, _, _)
ExpansionSum(J, Si, Ss, i) ==
    IF J = {} THEN Zero
    ELSE LET j == CHOOSE x \in J : TRUE
         IN  Add(Scale((-1) ^ (Index(Ss, j) - Index(Ss, i) - 1), Image(Si \ {j})),
                 ExpansionSum(J \ {j}, Si, Ss, i))

\* the last call was subset_image(S) and the first broken circuit inside S
\* has its pivot outside S
Expanded ==
    /\ Reduced
    /\ FirstMatch(Arg1.elems) # 0
    /\ broken_circuits[FirstMatch(Arg1.elems)].pivot \notin Arg1.elems

\* C20: when the broken circuit BC found in S has its pivot i outside S,
\* subset_image(S) is the sum over j in BC of
\* (-1)^(pos(j) - pos(i) - 1) * subset_image(Si minus {j}), Si = S + {i} and
\* pos the 0-based position in Si sorted by the ordering.
C20_Expansion ==
    Expanded =>
        LET S == Arg1.elems
            t == broken_circuits[FirstMatch(S)]
            Si == S \cup {t.pivot}
        IN  op.value = ExpansionSum(t.bc, Si, SortedBy(Si, sorting), t.pivot)

\* an expansion where an element of S outside BC stands between the pivot
\* and an element of BC, and whose result is not zero
C20_Witness ==
    /\ Expanded
    /\ op.value # Zero
    /\ LET S == Arg1.elems
           t == broken_circuits[FirstMatch(S)]
       IN  \E x \in S \ t.bc, j \in t.bc :
               sorting[t.pivot] < sorting[x] /\ sorting[x] < sorting[j]

-----------------------------------------------------------------------------
(* C11: termination                                                        *)

\* the cached calls in progress, outermost first
InProgress(k) ==
    IF stack[k].fn = "subset_image" THEN <<"subset_image", stack[k].S>>
    ELSE IF stack[k].fn = "product_on_basis"
         THEN <<"product_on_basis", stack[k].a, stack[k].b>>
    ELSE <<stack[k].fn, k>>

\* no call in progress was made from inside the same call
NoCycle ==
    \A m, n \in 1..Len(stack) : InProgress(m) = InProgress(n) => m = n

\* the call made on the instance has returned
Finished == ~Running /\ ~Fresh /\ op.exc = "none"

\* C11: a call of subset_image(S) or of product_on_basis(a, b) never comes
\* back to a call that is still in progress, and it returns.
C11_Terminates == [](NoCycle) /\ (Running ~> Finished)

\* a reduction in progress inside the reduction of a set that is not larger
C11_Witness ==
    /\ Running
    /\ \E m, n \in 1..Len(stack) :
          /\ m < n
          /\ stack[m].fn = "subset_image" /\ stack[n].fn = "subset_image"
          /\ Cardinality(stack[n].S) >= Cardinality(stack[m].S)

-----------------------------------------------------------------------------
(* C12: call-order independence                                            *)

\* C12: whatever calls were made before and whatever the caches hold, a
\* call of subset_image or of product_on_basis returns what the same call
\* returns on a new instance.
C12_CallOrderIndependent ==
    /\ op.name = "subset_image" =>
          \E r \in {subset_image(Arg1, EmptyCache)} :
              op.exc = r.exc /\ op.value = r.v
    /\ op.name = "product_on_basis" =>
          \E r \in {product_on_basis(Arg1, Arg2, EmptyCache)} :
              op.exc = r.exc /\ op.value = r.v

\* a product of several terms was answered from the caches an earlier call
\* had filled
C12_Witness ==
    /\ calls = MaxCalls
    /\ op.name = "product_on_basis"
    /\ Cardinality(DOMAIN op.value) >= 2
    /\ Cardinality(DOMAIN cache.pob) >= 2
    /\ cache.gen # <<>>

-----------------------------------------------------------------------------
(* C17: unique representation                                              *)

\* the ordering is omitted, or is the sorted ground set as a tuple or a list
IsDefaultForm(ordering) ==
    ordering.type = "None" \/ ordering.items = Sorted(groundset)

\* C17: the constructor called with the ordering omitted, with the sorted
\* ground set as a tuple or with it as a list returns the same instance,
\* whose ordering is the sorted ground set: every instance made for one of
\* these three forms is the instance returned.
C17_UniqueRepresentation ==
    (op.name = "OrlikSolomonAlgebra" /\ IsDefaultForm(Arg1)) =>
        /\ sorting = Sorting(Sorted(groundset))
        /\ \A k \in DOMAIN registry :
              IsDefaultForm(registry[k].given) => registry[k].id = op.value

\* the constructor, given the sorted ground set as a list, returned the
\* instance made with the ordering omitted, after an instance with another
\* ordering had been made first
C17_Witness ==
    /\ op.name = "OrlikSolomonAlgebra"
    /\ Arg1.type = "list" /\ IsDefaultForm(Arg1)
    /\ op.value = 2
    /\ \E k \in DOMAIN registry :
          registry[k].given.type = "None" /\ registry[k].id = op.value

-----------------------------------------------------------------------------
(* C15: the elements of the invariant algebra are fixed                    *)

\* every generator maps dependent sets to dependent sets
Equivariant ==
    \A g \in semigroup : \A S \in SUBSET groundset :
        Dependent(S) => Dependent({groundset_action(g, e) : e \in S})

\* C15 (as stated): the action of any element g of G on the lift of an
\* element of the invariant algebra returns the lift unchanged.
C15_Original == op.name = "action" => op.value = Arg2

\* C15 (amended): when every generator of G maps dependent sets to
\* dependent sets, the action of any element g of G on the lift of an
\* element of the invariant algebra returns the lift unchanged.
C15_InvariantFixed == (op.name = "action" /\ Equivariant) => op.value = Arg2

\* an element of G that is not a generator has acted on a lift with two
\* terms or more, and the generators map dependent sets to dependent sets
C15_Witness ==
    /\ op.name = "action"
    /\ Equivariant
    /\ Arg1 \notin semigroup
    /\ Cardinality(DOMAIN Arg2) >= 2

-----------------------------------------------------------------------------
(* C16: the invariant algebra of the triangle under the cyclic action      *)

\* 0 -> 1 -> 2 -> 0
Cycle == [x \in 0..2 |-> (x + 1) % 3]

\* the multiples of x
Span(x) == {Scale(k, x) : k \in -MaxCoeff..MaxCoeff}

\* C16: on the triangle, with the group generated by the cyclic permutation
\* of the three elements, the invariant elements of degree 0 are the
\* multiples of one() and those of degree 1 are the multiples of
\* e_0 + e_1 + e_2.
C16_CyclicTriangle ==
    (groundset = 0..2 /\ circuits = {{0, 1, 2}}
                      /\ op.name = "invariant_algebra"
                      /\ Generated(semigroup) = Generated({Cycle})) =>
        /\ invariant_module(0, semigroup, cache) = Span(one)
        /\ invariant_module(1, semigroup, cache)
             = Span(Add(Monomial({0}), Add(Monomial({1}), Monomial({2}))))

\* the invariant algebra of the triangle was made with the cyclic
\* permutation as the generator
C16_Witness ==
    /\ groundset = 0..2 /\ circuits = {{0, 1, 2}}
    /\ op.name = "invariant_algebra" /\ op.exc = "none"
    /\ semigroup = {Cycle}

-----------------------------------------------------------------------------
(* C21: the product with a single generator                                *)

\* the number of elements of b that the ordering puts before i
PositionIn(i, b) == Cardinality({e \in b : sorting[e] < sorting[i]})

\* C21: for NBC sets {i} and b with i not in b, product_on_basis({i}, b) is
\* (-1)^k * subset_image(b + {i}), where k is the 0-based position of i in
\* b + {i} sorted by the ordering of the algebra.
C21_SingleGenerator ==
    (op.name = "product_on_basis" /\ Cardinality(Arg1) = 1 /\ Arg1 \cap Arg2 = {}) =>
        \A i \in Arg1 :
            op.value = Scale((-1) ^ PositionIn(i, Arg2), Image(Arg1 \cup Arg2))

\* a generator was multiplied with a set in which its position under the
\* ordering and its position under the natural order differ in parity, and
\* the product is not zero
C21_Witness ==
    /\ op.name = "product_on_basis" /\ Cardinality(Arg1) = 1 /\ Arg1 \cap Arg2 = {}
    /\ op.value # Zero
    /\ \A i \in Arg1 :
          (PositionIn(i, Arg2) + Cardinality({e \in Arg2 : e < i})) % 2 = 1

-----------------------------------------------------------------------------
(* C22: the product with two generators or more                            *)

\* the sign of the permutation that sorts (sorted a, sorted b): -1 to the
\* number of pairs x in a, y in b that the ordering puts the other way round
MergeSign(a, b) ==
    (-1) ^ Cardinality({p \in a \X b : sorting[p[2]] < sorting[p[1]]})

\* C22: for disjoint NBC sets a and b with a of two elements or more,
\* product_on_basis(a, b) is eps * subset_image(a + b), where eps is the
\* sign of the permutation that sorts the elements of a in ascending order
\* followed by those of b in ascending order.
C22_MultiGenerator ==
    (op.name = "product_on_basis" /\ Cardinality(Arg1) >= 2 /\ Arg1 \cap Arg2 = {}) =>
        op.value = Scale(MergeSign(Arg1, Arg2), Image(Arg1 \cup Arg2))

\* a set of four elements, for which the start sign is +1, was multiplied
\* with a non-empty set; the product has two terms or more and eps is -1
C22_Witness ==
    /\ op.name = "product_on_basis" /\ Arg1 \cap Arg2 = {}
    /\ Cardinality(Arg1) % 4 < 2 /\ Cardinality(Arg1) >= 2
    /\ Arg2 # {}
    /\ Cardinality(DOMAIN op.value) >= 2
    /\ MergeSign(Arg1, Arg2) = -1

-----------------------------------------------------------------------------
(* C23: the construction of the table of broken circuits                   *)

\* the least element of C under the ordering
MinOf(C) == CHOOSE m \in C : \A y \in C : sorting[m] <= sorting[y]

\* the least element of the last circuit of `order` that gives the key bc
LastPivot(order, bc) ==
    LET j == CHOOSE i \in 1..Len(order) :
                 /\ order[i] \ {MinOf(order[i])} = bc
                 /\ \A h \in (i + 1)..Len(order) : order[h] \ {MinOf(order[h])} # bc
    IN  MinOf(order[j])

\* the orders in which the circuits of C may be processed, built one circuit
\* at a time
RECURSIVE OrdersOf(_)
OrdersOf(C) ==
    IF C = {} THEN {<<>>}
    ELSE UNION { {<<c>> \o s : s \in OrdersOf(C \ {c})} : c \in C }

\* C23: on a new instance the keys of the table are exactly the sets
\* C minus {min C} for the circuits C, no key occurs twice, each key maps to
\* the minimum of a circuit that gives it, and the table is the one built
\* from an order of the circuits in which each key maps to the minimum of
\* the last circuit that gives it.
C23_TableConstruction ==
    Fresh =>
        /\ {broken_circuits[k].bc : k \in 1..Len(broken_circuits)}
             = {C \ {MinOf(C)} : C \in circuits}
        /\ \A j, k \in 1..Len(broken_circuits) :
              broken_circuits[j].bc = broken_circuits[k].bc => j = k
        /\ \A k \in 1..Len(broken_circuits) : \E C \in circuits :
              /\ broken_circuits[k].bc = C \ {MinOf(C)}
              /\ broken_circuits[k].pivot = MinOf(C)
        /\ \E order \in OrdersOf(circuits) :
              /\ broken_circuits = BuildTable(order, sorting)
              /\ \A k \in 1..Len(broken_circuits) :
                    broken_circuits[k].pivot
                      = LastPivot(order, broken_circuits[k].bc)

\* a new instance in which two circuits give the same key with different
\* minima, and the key maps to the larger of the two
C23_Witness ==
    /\ Fresh
    /\ \E C, D \in circuits :
          /\ C \ {MinOf(C)} = D \ {MinOf(D)}
          /\ sorting[MinOf(C)] < sorting[MinOf(D)]
          /\ \E k \in 1..Len(broken_circuits) :
                /\ broken_circuits[k].bc = D \ {MinOf(D)}
                /\ broken_circuits[k].pivot = MinOf(D)

-----------------------------------------------------------------------------
(* C24: the cache only grows                                               *)

\* C24: no step of any call removes or changes the value cached for a
\* subset, and no step changes the ordering or the table of broken circuits.
C24_CacheMonotone ==
    [][ /\ \A S \in DOMAIN cache.si :
              S \in DOMAIN cache'.si /\ cache'.si[S] = cache.si[S]
        /\ sorting' = sorting
        /\ broken_circuits' = broken_circuits ]_vars

\* a later call has returned, and the cache still holds a reduction with two
\* terms or more of a set larger than the one just asked for
C24_Witness ==
    /\ calls >= 2 /\ ~Running
    /\ op.name = "subset_image"
    /\ \E S \in DOMAIN cache.si :
          /\ Cardinality(S) > Cardinality(Arg1.elems)
          /\ Cardinality(DOMAIN cache.si[S]) >= 2

-----------------------------------------------------------------------------
(* C25: a subset is reduced at most once                                   *)

\* the step opens a frame of subset_image for S
Opens(S) ==
    /\ Len(stack') > Len(stack)
    /\ stack'[Len(stack')].fn = "subset_image"
    /\ stack'[Len(stack')].S = S

\* the step is a call of subset_image(S) made on the instance
Requests(S) ==
    /\ calls' = calls + 1
    /\ op'.name = "subset_image" /\ op'.args = <<Frozen(S)>>

\* C25: the search of the table and the expansion start for a subset S only
\* when S has no value in the cache and no reduction of S is in progress,
\* and a call of subset_image(S) made when S has a value in the cache
\* returns that value at once and leaves the cache alone.
C25_AtMostOnce ==
    [][ \A S \in SUBSET groundset :
          /\ Opens(S) =>
                /\ S \notin DOMAIN cache.si
                /\ \A k \in 1..Len(stack) :
                      ~(stack[k].fn = "subset_image" /\ stack[k].S = S)
          /\ (Requests(S) /\ S \in DOMAIN cache.si) =>
                /\ stack' = <<>>
                /\ cache' = cache
                /\ op'.exc = "none"
                /\ op'.value = cache.si[S] ]_vars

\* in a later call, the reduction in progress asks for the reduction of a
\* set whose value, of two terms or more, is in the cache
C25_Witness ==
    /\ calls >= 2 /\ Running
    /\ Top.fn = "subset_image"
    /\ Todo(Top).do = "subset_image"
    /\ Todo(Top).S \in DOMAIN cache.si
    /\ Cardinality(DOMAIN cache.si[Todo(Top).S]) >= 2

-----------------------------------------------------------------------------
(* C26: the action preserves the degree                                    *)

\* every term of x has degree d
Homogeneous(x, d) == \A s \in DOMAIN x : degree_on_basis(s) = d

\* C26: once the invariant algebra is made, for every element g of G and
\* every NBC set f the basis action of g on f is zero or homogeneous of
\* degree |f|; and the action of g on an element of degree d is zero or
\* homogeneous of degree d.
C26_DegreePreserved ==
    /\ (op.name = "invariant_algebra" /\ op.exc = "none") =>
          \A g \in Generated(semigroup), f \in NBC :
              Homogeneous(basis_action(g, f, cache).v, degree_on_basis(f))
    /\ op.name = "action" =>
          \A s \in DOMAIN Arg2 : Homogeneous(op.value, degree_on_basis(s))

\* the invariant algebra was made for a group with an element that sends an
\* NBC set of two elements to a set that is not NBC, on which the basis
\* action has two terms or more
C26_Witness ==
    /\ op.name = "invariant_algebra" /\ op.exc = "none"
    /\ \E g \in Generated(semigroup), f \in NBC :
          /\ Cardinality(f) = 2
          /\ {groundset_action(g, e) : e \in f} \notin NBC
          /\ Cardinality(DOMAIN basis_action(g, f, cache).v) >= 2

-----------------------------------------------------------------------------
(* C27: subset_image stays in the basis                                    *)

\* C27: for every subset S of the ground set, every term of subset_image(S)
\* is indexed by a set that contains no key of the table of broken circuits
\* and has as many elements as S.
C27_StaysInBasis ==
    (op.name = "subset_image" /\ op.exc = "none") =>
        \A s \in DOMAIN op.value :
            /\ \A k \in 1..Len(broken_circuits) : ~(broken_circuits[k].bc \subseteq s)
            /\ Cardinality(s) = Cardinality(Arg1.elems)

\* a set that contains a key of the table was reduced to two terms or more
C27_Witness ==
    /\ op.name = "subset_image" /\ op.exc = "none"
    /\ \E k \in 1..Len(broken_circuits) : broken_circuits[k].bc \subseteq Arg1.elems
    /\ Cardinality(DOMAIN op.value) >= 2

-----------------------------------------------------------------------------
(* C28: the order in which the circuits are enumerated                     *)

\* the first key of the table T that is a subset of S (0: none)
FirstMatchIn(T, S) ==
    IF \E k \in 1..Len(T) : T[k].bc \subseteq S
    THEN CHOOSE k \in 1..Len(T) :
             /\ T[k].bc \subseteq S
             /\ \A m \in 1..(k - 1) : ~(T[m].bc \subseteq S)
    ELSE 0

\* subset_image(S) on a new instance whose table of broken circuits is T
RECURSIVE ReduceWith(_, _)
RECURSIVE SweepWith(_, _, _, _, _, _, _, _, _)
SweepWith(T, Ss, k, Si, bc, i, coeff, switch, r) ==
    IF k > Len(Ss) THEN r
    ELSE SweepWith(T, Ss, k + 1, Si, bc, i, NextCoeff(coeff, switch),
                   NextSwitch(switch, Ss[k], i),
                   IF InBC(Ss[k], bc)
                   THEN Add(r, Scale(coeff, ReduceWith(T, Si \ {Ss[k]})))
                   ELSE r)

ReduceWith(T, S) ==
    LET k == FirstMatchIn(T, S)
    IN  IF k = 0 THEN BaseCase(S)
        ELSE IF HasPivot(T[k].pivot, S) THEN Zero
        ELSE SweepWith(T, SortedBy(S \cup {T[k].pivot}, sorting), 1,
                       S \cup {T[k].pivot}, T[k].bc, T[k].pivot, 1, FALSE, Zero)

\* the tables that the circuits of `rest`, processed in any order after
\* those that gave T, may give
RECURSIVE TablesFrom(_, _)
TablesFrom(rest, T) ==
    IF rest = {} THEN {T}
    ELSE UNION { TablesFrom(rest \ {c},
                            SetItem(T, BrokenPart(SortedBy(c, sorting)),
                                    Pivot(SortedBy(c, sorting))))
                 : c \in rest }

\* the tables the instance may have, one for each order of the circuits
Tables == TablesFrom(circuits, <<>>)

\* C28: for every subset S of the ground set, subset_image(S) is the
\* element that the reduction gives with the table built from the circuits
\* in any other order.
C28_OrderIndependent ==
    Reduced => \A T \in Tables : op.value = ReduceWith(T, Arg1.elems)

\* a set was reduced to a non-zero element, and in a table built in another
\* order the first key inside the set is another one, or has another pivot
C28_Witness ==
    /\ Reduced /\ op.value # Zero
    /\ FirstMatch(Arg1.elems) # 0
    /\ \E T \in Tables :
          /\ FirstMatchIn(T, Arg1.elems) # 0
          /\ T[FirstMatchIn(T, Arg1.elems)] # broken_circuits[FirstMatch(Arg1.elems)]

-----------------------------------------------------------------------------
(* C29: a matroid with a loop                                              *)

\* the empty set is a key of the table
EmptyKey == \E k \in DOMAIN broken_circuits : broken_circuits[k].bc = {}

\* C29: if some circuit has a single element, the empty set is a key of the
\* table and subset_image(S) is zero for every subset S of the ground set,
\* the empty set included; the base case is never reached: every set has a
\* matching key, and no call made on the way has cached a single-term
\* element.
C29_LoopIsZero ==
    HasLoop =>
        /\ EmptyKey
        /\ \A S \in SUBSET groundset : FirstMatch(S) # 0
        /\ Reduced =>
              /\ op.exc = "none" /\ op.value = Zero
              /\ Arg1.elems \in DOMAIN cache.si
              /\ \A S \in DOMAIN cache.si : cache.si[S] = Zero

\* a set was reduced in a matroid with a loop, where the first key found
\* inside it is not the empty set and its pivot is outside the set, so that
\* the reduction has called itself
C29_Witness ==
    /\ HasLoop /\ Reduced
    /\ broken_circuits[FirstMatch(Arg1.elems)].bc # {}
    /\ broken_circuits[FirstMatch(Arg1.elems)].pivot \notin Arg1.elems
    /\ Cardinality(DOMAIN cache.si) > 1

-----------------------------------------------------------------------------
(* C30: the invariant elements are closed under the product                *)

\* action(g, x) on the instance as it is
ActOn(g, x) == action(g, x, cache).v

\* the invariant algebra has been made
Made == op.name = "invariant_algebra" /\ op.exc = "none"

\* C30: when every generator of G maps dependent sets to dependent sets,
\* action(g, x * y) = action(g, x) * action(g, y) for every g in G and all
\* basis elements x and y, and the product of two lifts of elements of the
\* invariant algebra is fixed by every g in G.
C30_ProductClosed ==
    (Made /\ Equivariant) =>
        /\ \A g \in Generated(semigroup) : \A a \in NBC, b \in NBC :
               ActOn(g, TimesOnBasis(a, b))
                 = Times(ActOn(g, Monomial(a)), ActOn(g, Monomial(b)))
        /\ \A u \in Lifts, v \in Lifts : \A g \in Generated(semigroup) :
               ActOn(g, Times(u, v)) = Times(u, v)

\* an invariant algebra was made with generators that map dependent sets to
\* dependent sets and do not all fix every element, and it has two lifts
\* with several terms whose product is not zero
C30_Witness ==
    /\ Made /\ Equivariant
    /\ \E g \in semigroup : \E e \in groundset : groundset_action(g, e) # e
    /\ \E u \in Lifts, v \in Lifts :
          /\ Cardinality(DOMAIN u) >= 2 /\ Cardinality(DOMAIN v) >= 2
          /\ Times(u, v) # Zero

====
